---- MODULE Spec2Model ----
(***************************************************************************)
(* CaloriLens data-seeding scripts.                                        *)
(*                                                                         *)
(*   upload_dummy_user_login.py  ("seeder"):   sign in, read foods.json,   *)
(*       post 5 days x 3 meals to users/{uid}/mealLogs over REST.          *)
(*   upload_foods.py             ("uploader"): resolve the service-account *)
(*       key, initialise Firebase, read foods.json, set one document per   *)
(*       catalog entry.                                                    *)
(*                                                                         *)
(* One run of one script is one behaviour: Init picks the script and the   *)
(* environment it runs in (the directory, foods.json, the clock); every    *)
(* action is one step of the script's top-level code.                      *)
(***************************************************************************)
EXTENDS Integers, Sequences, FiniteSets, TLC

VARIABLES
    script,            \* "seeder" | "uploader": which file is being run
    pc,                \* position in the script
    error,             \* how the run ended: "none", "exit" or the uncaught exception
    dirFiles,          \* environment: the files os.listdir('.') / os.path.exists see
    foodsFile,         \* environment: what open("foods.json") + json.load give
    today,             \* environment: datetime.utcnow()
    \* ---- seeder
    signInRequests,    \* POSTs sent to AUTH_URL
    auth_status,       \* auth_response.status_code; 0 while there is no response
    ID_TOKEN,
    USER_ID,
    available_foods,   \* list of {'name', 'calories'}
    i,                 \* for i in range(5)
    meal,              \* which of the three meals of iteration i comes next (1..3)
    posted,            \* requests.post(url, json=payload, headers=headers) calls made
    failReports,       \* number of "[FAIL]" lines printed
    \* ---- uploader
    SERVICE_ACCOUNT_KEY_FILE,
    appInitialized,    \* firebase_admin.initialize_app(cred) has run
    foods_data,        \* json.load result held by the uploader
    total,
    count,
    idx,               \* entries of foods_data.items() consumed so far
    setCalls,          \* doc_ref.set(data) calls made, with their outcome
    finalCount         \* the count printed by the last line; -1 until printed

vars == << script, pc, error, dirFiles, foodsFile, today,
           signInRequests, auth_status, ID_TOKEN, USER_ID, available_foods, i, meal, posted,
           failReports,
           SERVICE_ACCOUNT_KEY_FILE, appInitialized, foods_data, total, count,
           idx, setCalls, finalCount >>

seederVars == << signInRequests, auth_status, ID_TOKEN, USER_ID, available_foods, i, meal,
                 posted, failReports >>

uploaderVars == << SERVICE_ACCOUNT_KEY_FILE, appInitialized, foods_data, total,
                   count, idx, setCalls, finalCount >>

envVars == << script, dirFiles, foodsFile, today >>

-----------------------------------------------------------------------------
(* Bounds of the model *)

\* largest catalog the seeder is run against (it needs index 18, so >= 19 matter)
MaxFoods == 20
\* largest catalog the uploader is run against
MaxUploadFoods == 3
\* catalogs differ in their gram quantities by a pattern number 0..MaxPattern
MaxPattern == 1

-----------------------------------------------------------------------------
(* Python lists are 0-based *)

At(list, k) == list[k + 1]

InRange(list, k) == k >= 0 /\ k < Len(list)

RECURSIVE SumSeq(_)
SumSeq(s) == IF s = << >> THEN 0 ELSE Head(s) + SumSeq(Tail(s))

-----------------------------------------------------------------------------
(* foods.json: a mapping id -> {name, proteins, fat, carbs}, or a file that  *)
(* is missing, is not JSON, or is JSON of another shape                      *)

Fields == {"name", "proteins", "fat", "carbs"}

FoodId(k) == (k * 7) % 31

FoodData(k, pat) ==
    [name     |-> << "food", k >>,
     proteins |-> (k + pat) % 5,
     fat      |-> (k * 3 + pat) % 7,
     carbs    |-> (2 * k + 1) % 4]

Without(data, field) == [f \in (DOMAIN data) \ {field} |-> data[f]]

\* n entries in file order; entry `drop` (0 = none) lacks `field`
Catalog(n, pat, drop, field) ==
    [k \in 1..n |->
        [id   |-> FoodId(k),
         data |-> IF k = drop THEN Without(FoodData(k, pat), field)
                              ELSE FoodData(k, pat)]]

FoodsFiles(maxN) ==
    { [kind |-> "missing",      entries |-> << >>],
      [kind |-> "invalid_json", entries |-> << >>],
      [kind |-> "array",        entries |-> Catalog(2, 0, 0, "name")] }
    \cup
    { [kind |-> "object", entries |-> Catalog(n, pat, 0, "name")] :
          n \in 0..maxN, pat \in 0..MaxPattern }
    \cup
    UNION { { [kind |-> "object", entries |-> Catalog(n, 0, drop, field)] :
                  drop \in {1, n}, field \in {"name", "carbs"} } :
            n \in 1..maxN }

\* open("foods.json") raises FileNotFoundError
FileMissing(file) == file.kind = "missing"

\* json.load raises JSONDecodeError
JsonInvalid(file) == file.kind = "invalid_json"

\* the value json.load returns has .items()
IsMapping(file) == file.kind = "object"

-----------------------------------------------------------------------------
(* datetime *)

IsLeap(y) == (y % 4 = 0) /\ ((y % 100 # 0) \/ (y % 400 = 0))

DaysInMonth(y, m) ==
    IF m = 2 THEN (IF IsLeap(y) THEN 29 ELSE 28)
    ELSE IF m \in {4, 6, 9, 11} THEN 30 ELSE 31

\* the same clock time one calendar day earlier
PrevDay(dt) ==
    IF dt.day > 1 THEN [dt EXCEPT !.day = dt.day - 1]
    ELSE IF dt.month > 1
         THEN [dt EXCEPT !.month = dt.month - 1,
                         !.day = DaysInMonth(dt.year, dt.month - 1)]
         ELSE [dt EXCEPT !.year = dt.year - 1, !.month = 12, !.day = 31]

\* dt - timedelta(days=n)
RECURSIVE MinusDays(_, _)
MinusDays(dt, n) == IF n = 0 THEN dt ELSE MinusDays(PrevDay(dt), n - 1)

\* dt.replace(hour=h, minute=0, second=0): microsecond is not among the arguments
ReplaceTime(dt, h) == [dt EXCEPT !.hour = h, !.minute = 0, !.second = 0]

\* dt.strftime("%Y-%m-%d"): fixed-width fields, so the triple stands for the text
StrfDate(dt) == << dt.year, dt.month, dt.day >>

\* dt.isoformat() + "Z": the fraction is printed only when microsecond # 0
IsoFormatZ(dt) ==
    [date |-> << dt.year, dt.month, dt.day >>,
     time |-> << dt.hour, dt.minute, dt.second >>,
     frac |-> IF dt.microsecond = 0 THEN << >> ELSE << dt.microsecond >>]

DateTime(y, mo, d, clock) ==
    [year |-> y, month |-> mo, day |-> d,
     hour |-> clock[1], minute |-> clock[2], second |-> clock[3],
     microsecond |-> clock[4]]

Clocks == { << 7, 30, 12, 0 >>, << 10, 15, 30, 123456 >>, << 23, 59, 59, 999999 >> }

Dates == { << 2024, 3, 2 >>, << 2023, 3, 3 >>, << 2025, 1, 2 >>, << 2024, 6, 15 >> }

Todays == { DateTime(d[1], d[2], d[3], c) : d \in Dates, c \in Clocks }

NoClock == DateTime(2024, 1, 1, << 0, 0, 0, 0 >>)

-----------------------------------------------------------------------------
(* Seeder: upload_dummy_user_login.py *)

\* status codes the identity endpoint answers with
AuthStatuses == {200, 400}

\* status codes the Firestore REST endpoint answers with
WriteStatuses == {200, 403}

\* variant: only server errors are taken for a failed login
LoginFailedServerOnly(status) == status >= 500

\* if auth_response.status_code != 200
LoginFailed(status) == status # 200

\* data['proteins'], data['fat'], data['carbs'], data['name'] raise KeyError when absent
EntryRaises(entry) == ~(Fields \subseteq DOMAIN entry.data)

\* anything raised inside the try block is caught by `except Exception`
SeederLoadRaises(file) ==
    \/ FileMissing(file)
    \/ JsonInvalid(file)
    \/ ~IsMapping(file)
    \/ \E k \in 1..Len(file.entries) : EntryRaises(file.entries[k])

\* variant: fat weighted like the other two macronutrients
CaloriesFatAsFour(data) == (data.proteins * 4) + (data.fat * 4) + (data.carbs * 4)

Calories(data) == (data.proteins * 4) + (data.fat * 9) + (data.carbs * 4)

FoodRecord(data) == [name |-> data.name, calories |-> Calories(data)]

\* what available_foods holds when the try block is left: one record per entry,
\* up to the first entry that raises
RECURSIVE AppendFoods(_)
AppendFoods(entries) ==
    IF entries = << >> \/ EntryRaises(Head(entries)) THEN << >>
    ELSE << FoodRecord(Head(entries).data) >> \o AppendFoods(Tail(entries))

LoadAvailableFoods(file) ==
    IF IsMapping(file) THEN AppendFoods(file.entries) ELSE << >>

\* variant: the handler prints and falls through, without exit()
PcAfterSeederLoadNoExit(file) == "loop"

\* except Exception: print; exit()
PcAfterSeederLoad(file) == IF SeederLoadRaises(file) THEN "exited" ELSE "loop"

\* for i in range(5)
NumDays == 5

\* variant: the highest index is first read by the second meal
MealIndicesLateRead == << << 0, 9 >>, << 1, 18 >>, << 14 >> >>

\* m1 = [available_foods[0], available_foods[18]], m2 = [.. [1], .. [9]], m3 = [.. [14]]
MealIndices == << << 0, 18 >>, << 1, 9 >>, << 14 >> >>

\* replace(hour=8 ..), replace(hour=13 ..), replace(hour=19 ..)
MealHours == << 8, 13, 19 >>

MealsPerDay == Len(MealIndices)

\* building the list m raises IndexError
MealIndexError(foods, m) ==
    \E k \in 1..Len(MealIndices[m]) : ~InRange(foods, MealIndices[m][k])

MealItems(foods, m) ==
    [k \in 1..Len(MealIndices[m]) |-> At(foods, MealIndices[m][k])]

\* current_date.replace(hour=.., minute=0, second=0), current_date = today - timedelta(days=i)
MealTime(now, day, m) == ReplaceTime(MinusDays(now, day), MealHours[m])

\* variant: the total is the first item's calories
TotalCalFirstOnly(items) == items[1].calories

\* total_cal = sum(item['calories'] for item in items)
TotalCal(items) == SumSeq([k \in 1..Len(items) |-> items[k].calories])

\* items_array_values
ItemsArrayValues(items) ==
    [k \in 1..Len(items) |->
        [name     |-> items[k].name,
         calories |-> items[k].calories]]

\* payload["fields"]
Payload(date_obj, items) ==
    [date          |-> StrfDate(date_obj),
     totalCalories |-> TotalCal(items),
     timestamp     |-> IsoFormatZ(date_obj),
     items         |-> ItemsArrayValues(items)]

\* requests.post(url, json=payload, headers=headers)
MealRequest(uid, token, date_obj, items) ==
    [uid |-> uid, bearer |-> token, fields |-> Payload(date_obj, items)]

SeederAdvance ==
    IF meal < MealsPerDay THEN /\ meal' = meal + 1
                               /\ i' = i
                               /\ pc' = pc
    ELSE IF i + 1 < NumDays THEN /\ meal' = 1
                                 /\ i' = i + 1
                                 /\ pc' = pc
    ELSE /\ meal' = meal
         /\ i' = i + 1
         /\ pc' = "done"

\* lines 18-31: the sign-in request is answered
SeederLogin ==
    /\ script = "seeder" /\ pc = "login"
    /\ signInRequests' = signInRequests + 1
    /\ \E status \in AuthStatuses :
          /\ auth_status' = status
          /\ IF LoginFailed(status)
             THEN /\ pc' = "exited" /\ error' = "exit"
                  /\ UNCHANGED << ID_TOKEN, USER_ID >>
             ELSE /\ pc' = "load" /\ error' = error
                  /\ ID_TOKEN' = "idToken" /\ USER_ID' = "localId"
    /\ UNCHANGED << envVars, available_foods, i, meal, posted, failReports,
                    uploaderVars >>

\* line 18: requests.post raises (no connection, timeout); nothing catches it
SeederLoginRaises ==
    /\ script = "seeder" /\ pc = "login"
    /\ signInRequests' = signInRequests + 1
    /\ pc' = "crashed" /\ error' = "RequestException"
    /\ UNCHANGED << envVars, auth_status, ID_TOKEN, USER_ID, available_foods, i,
                    meal, posted, failReports, uploaderVars >>

\* lines 34-45
SeederLoadCatalog ==
    /\ script = "seeder" /\ pc = "load"
    /\ available_foods' = LoadAvailableFoods(foodsFile)
    /\ pc' = PcAfterSeederLoad(foodsFile)
    /\ error' = IF pc' = "exited" THEN "exit" ELSE error
    /\ UNCHANGED << envVars, signInRequests, auth_status, ID_TOKEN, USER_ID, i,
                    meal, posted, failReports, uploaderVars >>

\* lines 101, 106, 111: the list of the next meal cannot be built
SeederIndexError ==
    /\ script = "seeder" /\ pc = "loop"
    /\ MealIndexError(available_foods, meal)
    /\ pc' = "crashed" /\ error' = "IndexError"
    /\ UNCHANGED << envVars, seederVars, uploaderVars >>

\* upload_meal, lines 48-91: the request is answered, with 200 or not
SeederUploadMeal ==
    /\ script = "seeder" /\ pc = "loop"
    /\ ~MealIndexError(available_foods, meal)
    /\ posted' = Append(posted,
                        MealRequest(USER_ID, ID_TOKEN, MealTime(today, i, meal),
                                    MealItems(available_foods, meal)))
    /\ \E status \in WriteStatuses :
          failReports' = IF status = 200 THEN failReports ELSE failReports + 1
    /\ SeederAdvance
    /\ UNCHANGED << envVars, error, signInRequests, auth_status, ID_TOKEN, USER_ID,
                    available_foods, uploaderVars >>

\* upload_meal, line 86: requests.post raises; upload_meal has no try
SeederUploadRaises ==
    /\ script = "seeder" /\ pc = "loop"
    /\ ~MealIndexError(available_foods, meal)
    /\ posted' = Append(posted,
                        MealRequest(USER_ID, ID_TOKEN, MealTime(today, i, meal),
                                    MealItems(available_foods, meal)))
    /\ pc' = "crashed" /\ error' = "RequestException"
    /\ UNCHANGED << envVars, signInRequests, auth_status, ID_TOKEN, USER_ID,
                    available_foods, i, meal, failReports, uploaderVars >>

-----------------------------------------------------------------------------
(* Uploader: upload_foods.py *)

ExactKeyFile == "calorilens-b223f-firebase-adminsdk-fbsvc-ec4103c380.json"

FallbackKeyFile == "serviceAccountKey.json"

\* the names a run directory may hold besides foods.json
KeyDirNames ==
    { ExactKeyFile, "proj-firebase-adminsdk-a.json", "proj-firebase-adminsdk-b.json",
      "firebase-adminsdk-readme.txt", FallbackKeyFile }

\* f.endswith('.json')
EndsWithJson(f) ==
    f \in { ExactKeyFile, "proj-firebase-adminsdk-a.json",
            "proj-firebase-adminsdk-b.json", FallbackKeyFile, "foods.json" }

\* 'firebase-adminsdk' in f
ContainsAdminSdk(f) ==
    f \in { ExactKeyFile, "proj-firebase-adminsdk-a.json",
            "proj-firebase-adminsdk-b.json", "firebase-adminsdk-readme.txt" }

\* os.listdir('.')
ListDir(dir, file) == dir \cup (IF FileMissing(file) THEN {} ELSE {"foods.json"})

\* os.path.exists(f)
PathExists(dir, file, f) == f \in ListDir(dir, file)

\* variant: the extension is not looked at
MatchesKeyPatternAnyExt(f) == ContainsAdminSdk(f)

MatchesKeyPattern(f) == EndsWithJson(f) /\ ContainsAdminSdk(f)

PotentialKeys(listing) == { f \in listing : MatchesKeyPattern(f) }

\* lines 8-19: the values SERVICE_ACCOUNT_KEY_FILE can end with; potential_keys[0]
\* is whichever match os.listdir happens to return first
ResolvedKeyFiles(dir, file) ==
    IF PathExists(dir, file, ExactKeyFile) THEN { ExactKeyFile }
    ELSE IF PotentialKeys(ListDir(dir, file)) # {}
         THEN PotentialKeys(ListDir(dir, file))
         ELSE { FallbackKeyFile }

\* variant: count += 1 placed after the try/except
CountAfterEveryEntry(n, ok) == n + 1

\* count += 1 follows doc_ref.set(data) inside the try
CountAfter(n, ok) == IF ok THEN n + 1 ELSE n

\* variant: the try wraps the loop, so the first failure ends it
IdxAfterStopOnFailure(k, n, ok) == IF ok THEN k + 1 ELSE n

\* the except clause is inside the for loop: the next entry follows either way
IdxAfter(k, n, ok) == k + 1

NotLoaded == [kind |-> "none", entries |-> << >>]

\* lines 8-19
UploaderResolveKey ==
    /\ script = "uploader" /\ pc = "resolve"
    /\ \E f \in ResolvedKeyFiles(dirFiles, foodsFile) :
          SERVICE_ACCOUNT_KEY_FILE' = f
    /\ pc' = "check_key"
    /\ UNCHANGED << envVars, error, seederVars, appInitialized, foods_data, total,
                    count, idx, setCalls, finalCount >>

\* lines 21-24
UploaderCheckKey ==
    /\ script = "uploader" /\ pc = "check_key"
    /\ IF PathExists(dirFiles, foodsFile, SERVICE_ACCOUNT_KEY_FILE)
       THEN pc' = "init" /\ error' = error
       ELSE pc' = "exited" /\ error' = "exit"
    /\ UNCHANGED << envVars, seederVars, uploaderVars >>

\* lines 27-31: Certificate, initialize_app and firestore.client succeed
UploaderInitFirebase ==
    /\ script = "uploader" /\ pc = "init"
    /\ appInitialized' = TRUE
    /\ pc' = "load"
    /\ UNCHANGED << envVars, error, seederVars, SERVICE_ACCOUNT_KEY_FILE,
                    foods_data, total, count, idx, setCalls, finalCount >>

\* lines 32-34: one of them raises (the file is no service-account key)
UploaderInitFails ==
    /\ script = "uploader" /\ pc = "init"
    /\ pc' = "exited" /\ error' = "exit"
    /\ UNCHANGED << envVars, seederVars, uploaderVars >>

\* lines 37-53
UploaderLoadCatalog ==
    /\ script = "uploader" /\ pc = "load"
    /\ IF FileMissing(foodsFile) \/ JsonInvalid(foodsFile)
       THEN /\ pc' = "exited" /\ error' = "exit"
            /\ UNCHANGED << foods_data, total, count >>
       ELSE /\ pc' = "loop" /\ error' = error
            /\ foods_data' = foodsFile
            /\ total' = Len(foodsFile.entries)
            /\ count' = 0
    /\ UNCHANGED << envVars, seederVars, SERVICE_ACCOUNT_KEY_FILE, appInitialized,
                    idx, setCalls, finalCount >>

\* line 55: foods_data.items() on a value that is no dict
UploaderItemsRaises ==
    /\ script = "uploader" /\ pc = "loop"
    /\ ~IsMapping(foods_data)
    /\ pc' = "crashed" /\ error' = "AttributeError"
    /\ UNCHANGED << envVars, seederVars, uploaderVars >>

\* lines 55-62: one pass of the loop body; doc_ref.set returns or raises
UploaderUploadOne ==
    /\ script = "uploader" /\ pc = "loop"
    /\ IsMapping(foods_data)
    /\ idx < Len(foods_data.entries)
    /\ \E ok \in BOOLEAN :
          /\ setCalls' = Append(setCalls,
                                [id   |-> At(foods_data.entries, idx).id,
                                 data |-> At(foods_data.entries, idx).data,
                                 ok   |-> ok])
          /\ count' = CountAfter(count, ok)
          /\ idx' = IdxAfter(idx, Len(foods_data.entries), ok)
    /\ UNCHANGED << envVars, pc, error, seederVars, SERVICE_ACCOUNT_KEY_FILE,
                    appInitialized, foods_data, total, finalCount >>

\* lines 64-65
UploaderFinish ==
    /\ script = "uploader" /\ pc = "loop"
    /\ IsMapping(foods_data)
    /\ idx >= Len(foods_data.entries)
    /\ finalCount' = count
    /\ pc' = "done"
    /\ UNCHANGED << envVars, error, seederVars, SERVICE_ACCOUNT_KEY_FILE,
                    appInitialized, foods_data, total, count, idx, setCalls >>

-----------------------------------------------------------------------------

InitSeeder ==
    /\ script = "seeder" /\ pc = "login"
    /\ dirFiles = {}
    /\ foodsFile \in FoodsFiles(MaxFoods)
    /\ today \in Todays

InitUploader ==
    /\ script = "uploader" /\ pc = "resolve"
    /\ dirFiles \in SUBSET KeyDirNames
    /\ foodsFile \in FoodsFiles(MaxUploadFoods)
    /\ today = NoClock

Init ==
    /\ InitSeeder \/ InitUploader
    /\ error = "none"
    /\ signInRequests = 0
    /\ auth_status = 0
    /\ ID_TOKEN = "" /\ USER_ID = ""
    /\ available_foods = << >>
    /\ i = 0 /\ meal = 1
    /\ posted = << >>
    /\ failReports = 0
    /\ SERVICE_ACCOUNT_KEY_FILE = ExactKeyFile
    /\ appInitialized = FALSE
    /\ foods_data = NotLoaded
    /\ total = 0 /\ count = 0 /\ idx = 0
    /\ setCalls = << >>
    /\ finalCount = -1

Next ==
    \/ SeederLogin
    \/ SeederLoginRaises
    \/ SeederLoadCatalog
    \/ SeederIndexError
    \/ SeederUploadMeal
    \/ SeederUploadRaises
    \/ UploaderResolveKey
    \/ UploaderCheckKey
    \/ UploaderInitFirebase
    \/ UploaderInitFails
    \/ UploaderLoadCatalog
    \/ UploaderItemsRaises
    \/ UploaderUploadOne
    \/ UploaderFinish

Spec == Init /\ [][Next]_vars

-----------------------------------------------------------------------------
(* Properties *)

Terminated == pc \in {"done", "exited", "crashed"}

\* the seeder has left the catalog-load step without exiting
SeederLoaded ==
    /\ script = "seeder"
    /\ auth_status = 200
    /\ pc \in {"loop", "done", "crashed"}

\* indices j of a list at which P holds
Successes(calls) == { j \in 1..Len(calls) : calls[j].ok }

\* C1: the uploader attempts the catalog entries in file order, one set call per
\* entry keyed by the entry's id, never the same entry twice; a failed call does
\* not end the loop: the run ends only after the last entry has been attempted.
C1_EveryEntryAttemptedOnce ==
    script = "uploader" =>
        /\ Len(setCalls) <= Len(foodsFile.entries)
        /\ \A j \in 1..Len(setCalls) :
              /\ setCalls[j].id = foodsFile.entries[j].id
              /\ setCalls[j].data = foodsFile.entries[j].data
        /\ \A j, k \in 1..Len(setCalls) :
              j # k => setCalls[j].id # setCalls[k].id
        /\ (IsMapping(foods_data) /\ pc # "loop") =>
              /\ pc = "done"
              /\ Len(setCalls) = Len(foodsFile.entries)

C1_Witness ==
    /\ script = "uploader" /\ pc = "done"
    /\ Len(setCalls) = 3
    /\ ~setCalls[1].ok /\ setCalls[2].ok /\ ~setCalls[3].ok

\* C2: the running count is the number of set calls that succeeded so far, never
\* more than the catalog size, and the count printed at the end is that number.
C2_CountIsSuccessfulWrites ==
    script = "uploader" =>
        /\ count = Cardinality(Successes(setCalls))
        /\ count <= Len(foodsFile.entries)
        /\ pc = "done" => finalCount = Cardinality(Successes(setCalls))
        /\ pc # "done" => finalCount = -1

C2_Witness ==
    /\ script = "uploader" /\ pc = "done"
    /\ Len(setCalls) = 3
    /\ finalCount = 1

\* foods.json is malformed in the sense of C3: missing, not JSON, or (seeder) an
\* entry without one of the fields the seeder reads
Malformed ==
    \/ FileMissing(foodsFile)
    \/ JsonInvalid(foodsFile)
    \/ /\ script = "seeder"
       /\ IsMapping(foodsFile)
       /\ \E k \in 1..Len(foodsFile.entries) :
             ~({"name", "proteins", "fat", "carbs"} \subseteq DOMAIN foodsFile.entries[k].data)

\* C3 as stated: with a malformed foods.json no network call is ever made, neither
\* a sign-in request nor a meal-log write nor a catalog document write.
C3_NoNetworkCallWhenMalformed ==
    Malformed =>
        /\ signInRequests = 0
        /\ posted = << >>
        /\ setCalls = << >>

\* C3 amended: with a malformed foods.json no database write is ever made and the
\* upload loop is never entered; the seeder reads the file only after its one
\* sign-in request was answered with 200.
C3_NoWriteWhenMalformed ==
    Malformed =>
        /\ posted = << >>
        /\ setCalls = << >>
        /\ pc \notin {"loop", "done"}
        /\ (script = "seeder" /\ pc \notin {"login", "crashed"}) => signInRequests = 1
        /\ (script = "seeder" /\ pc = "exited" /\ available_foods # << >>) =>
              auth_status = 200
        /\ script = "uploader" => signInRequests = 0

C3_Witness ==
    /\ script = "seeder" /\ pc = "exited"
    /\ Malformed
    /\ auth_status = 200 /\ signInRequests = 1
    /\ Len(available_foods) >= 19

\* the files of the directory that match the credential pattern, other than the
\* exact name
PatternFiles == dirFiles \cap {"proj-firebase-adminsdk-a.json", "proj-firebase-adminsdk-b.json"}

\* C4: once resolved, the credential file is the exact-named file if present, else
\* a pattern-matching file if one is present, else the fallback name if present;
\* with none of the three the run ends without initialising or writing.
C4_CredentialResolutionOrder ==
    (script = "uploader" /\ pc # "resolve") =>
        LET exact == "calorilens-b223f-firebase-adminsdk-fbsvc-ec4103c380.json" \in dirFiles
            fallback == "serviceAccountKey.json" \in dirFiles
        IN  /\ exact =>
                SERVICE_ACCOUNT_KEY_FILE = "calorilens-b223f-firebase-adminsdk-fbsvc-ec4103c380.json"
            /\ (~exact /\ PatternFiles # {}) => SERVICE_ACCOUNT_KEY_FILE \in PatternFiles
            /\ (~exact /\ PatternFiles = {} /\ fallback) =>
                SERVICE_ACCOUNT_KEY_FILE = "serviceAccountKey.json"
            /\ (~exact /\ PatternFiles = {} /\ ~fallback) =>
                /\ pc \in {"check_key", "exited"}
                /\ ~appInitialized
                /\ setCalls = << >>
            /\ (exact \/ PatternFiles # {} \/ fallback) =>
                /\ SERVICE_ACCOUNT_KEY_FILE \in dirFiles
                /\ appInitialized => pc # "check_key"

C4_Witness ==
    /\ script = "uploader" /\ pc = "done"
    /\ "calorilens-b223f-firebase-adminsdk-fbsvc-ec4103c380.json" \notin dirFiles
    /\ "firebase-adminsdk-readme.txt" \in dirFiles
    /\ "serviceAccountKey.json" \in dirFiles
    /\ SERVICE_ACCOUNT_KEY_FILE = "proj-firebase-adminsdk-b.json"
    /\ setCalls # << >>

\* C5: a fatal setup failure is followed by no database write.  Seeder: a meal is
\* posted only after a 200 sign-in and a catalog load that did not raise.
\* Uploader: a document is set only with an existing credential file, an
\* initialised connection and a foods.json that is present and valid JSON.
C5_FatalSetupFailureNoWrites ==
    /\ posted # << >> =>
          /\ auth_status = 200
          /\ ~SeederLoadRaises(foodsFile)
    /\ setCalls # << >> =>
          /\ SERVICE_ACCOUNT_KEY_FILE \in dirFiles
          /\ appInitialized
          /\ ~FileMissing(foodsFile) /\ ~JsonInvalid(foodsFile)
    /\ (script = "seeder" /\ auth_status \notin {0, 200}) => pc = "exited"
    /\ (script = "uploader" /\ pc = "exited") => setCalls = << >>

C5_Witness ==
    /\ script = "seeder" /\ pc = "exited"
    /\ auth_status = 400
    /\ Len(foodsFile.entries) >= 19 /\ ~SeederLoadRaises(foodsFile)

\* C6 as stated, for a catalog that holds every index the meals use: once sign-in
\* and catalog load have succeeded, a run that has ended made 15 write attempts,
\* whatever became of each request.
C6_AlwaysFifteenAttempts ==
    (SeederLoaded /\ Len(available_foods) >= 19 /\ Terminated) => Len(posted) = 15

\* days from 0001-01-01 to the date << y, m, d >>
Ordinal(date) ==
    LET y == date[1] - 1
        before == << 0, 31, 59, 90, 120, 151, 181, 212, 243, 273, 304, 334 >>
        leapDay == IF date[2] > 2 /\ (date[1] % 4 = 0)
                      /\ ((date[1] % 100 # 0) \/ (date[1] % 400 = 0)) THEN 1 ELSE 0
    IN  y * 365 + (y \div 4) - (y \div 100) + (y \div 400)
          + before[date[2]] + leapDay + date[3]

TodayDate == << today.year, today.month, today.day >>

\* C7, the dates: write number j carries the date label D - ((j-1) div 3), its
\* timestamp is on that date at hour 08, 13 or 19 with minute and second zero.
C7_DateLabels ==
    script = "seeder" =>
        \A j \in 1..Len(posted) :
            LET f == posted[j].fields
            IN  /\ Ordinal(f.date) = Ordinal(TodayDate) - ((j - 1) \div 3)
                /\ f.timestamp.date = f.date
                /\ f.timestamp.time = << << 8, 13, 19 >>[((j - 1) % 3) + 1], 0, 0 >>

\* C7 as stated: the above, and the timestamps have no sub-minute remainder, so
\* they are exactly 08:00, 13:00 and 19:00.
C7_DatesAndExactTimes ==
    /\ C7_DateLabels
    /\ script = "seeder" =>
          \A j \in 1..Len(posted) : posted[j].fields.timestamp.frac = << >>

\* C8: after a load that did not raise, available_foods has one record per
\* catalog entry, in catalog order, with calories = 4p + 9f + 4c.
C8_CaloriesAndRecordCount ==
    SeederLoaded =>
        /\ Len(available_foods) = Len(foodsFile.entries)
        /\ \A k \in 1..Len(available_foods) :
              LET d == foodsFile.entries[k].data
              IN  /\ available_foods[k].name = d.name
                  /\ available_foods[k].calories = 4 * d.proteins + 9 * d.fat + 4 * d.carbs

C8_Witness ==
    /\ SeederLoaded
    /\ Len(available_foods) = 20
    /\ \E k \in 1..Len(available_foods) :
          /\ foodsFile.entries[k].data.fat > 0
          /\ foodsFile.entries[k].data.proteins > 0
          /\ foodsFile.entries[k].data.carbs > 0

\* the catalog positions of write number j
IndicesOfWrite(j) == << << 0, 18 >>, << 1, 9 >>, << 14 >> >>[((j - 1) % 3) + 1]

\* C9: in every posted document totalCalories is the sum of the calories of the
\* document's own items, and the items are the meal's items, in order.
C9_TotalIsSumOfItems ==
    script = "seeder" =>
        \A j \in 1..Len(posted) :
            LET f == posted[j].fields
                ix == IndicesOfWrite(j)
            IN  /\ f.totalCalories = SumSeq([k \in 1..Len(f.items) |-> f.items[k].calories])
                /\ Len(f.items) = Len(ix)
                /\ \A k \in 1..Len(ix) :
                      /\ f.items[k].name = available_foods[ix[k] + 1].name
                      /\ f.items[k].calories = available_foods[ix[k] + 1].calories

C9_Witness ==
    /\ script = "seeder"
    /\ Len(posted) >= 2
    /\ Len(posted[2].fields.items) = 2
    /\ posted[2].fields.items[1].calories > 0
    /\ posted[2].fields.items[2].calories > 0

\* C10: with fewer than 19 loaded entries the run ends on the IndexError of the
\* first meal, with no meal posted; with 19 or more no IndexError happens, and an
\* IndexError never comes after a write.
C10_IndexErrorOnlyBeforeFirstWrite ==
    script = "seeder" =>
        /\ (SeederLoaded /\ Len(available_foods) < 19) =>
              /\ posted = << >>
              /\ pc # "done"
              /\ pc = "crashed" => error = "IndexError"
        /\ Len(available_foods) >= 19 => error # "IndexError"
        /\ error = "IndexError" => posted = << >> /\ signInRequests = 1

C10_Witness ==
    /\ SeederLoaded
    /\ Len(available_foods) = 18
    /\ error = "IndexError"

====
